---- MODULE Spec2Model ----
(***************************************************************************)
(* State-machine model of src/file.ts: the SavedModel loader, its          *)
(* process-wide session registry (loadedSavedModelPath), the handle id     *)
(* counter (nextTfSavedModelId) and the TFSavedModel handle (inputs,        *)
(* outputs, dispose, predict).                                             *)
(*                                                                         *)
(* Reading of the source.  src/file.ts is not accepted by the TypeScript   *)
(* compiler as written: it holds tokens that cannot be parsed (line 256,   *)
(* line 329), names that are declared nowhere (loadedSavedModelPathMap,    *)
(* stringArrayHaveSameElements, outputNodeNames_, putputs, ...) and        *)
(* expressions that do not type (line 169, 173, 199, 269).  Each such      *)
(* token is read as the declared name it misspells, which is the only      *)
(* reading under which the file is a program.  Everything the compiler     *)
(* accepts is modelled as written: the string literals of the dtype        *)
(* switch, the conditional of line 256, the in-place sort of the tag       *)
(* comparison, the missing break in the reuse scan.                        *)
(*                                                                         *)
(* Strings whose characters matter (tags, input and output keys, tensor    *)
(* names) are sequences of UTF-16 code units, so that sort(), join() and   *)
(* replace(/:0$/) are computed, not assumed.  Paths, signature keys and    *)
(* dtype keys are only ever compared with ===, and are TLA+ strings.       *)
(***************************************************************************)
EXTENDS Integers, Sequences, FiniteSets, TLC

----------------------------------------------------------------------------
(* Bounds of the model *)

\* successful loads in one behaviour (caps nextTfSavedModelId)
MaxLoads == 2
\* longest tensor list the native backend returns from runSavedModel
MaxResultLen == 2
\* successful loads in one behaviour of SpecPredict
MaxPredictLoads == 1
\* longest MetaGraph list given to the signature lookup and to the inspection
MaxGraphs == 2
\* the longest tag list given to the tag comparison on its own
MaxTags == 2

----------------------------------------------------------------------------
(* JavaScript values *)

Undefined == "undefined"
NoError == "none"

\* code units
Comma == 44
DigitZero == 48
Colon == 58

\* the strings of the model, as code units
STR_s == <<115>>                \* "s"   (stands for the tag "serve")
STR_e == <<101>>                \* "e"   (stands for the tag "extra")
STR_s_s == <<115, 44, 115>>     \* "s,s"
STR_e_s == <<101, 44, 115>>     \* "e,s"
STR_x == <<120>>                \* "x"
STR_y == <<121>>                \* "y"
STR_z == <<122>>                \* "z"
STR_x_y == <<120, 44, 121>>     \* "x,y"
STR_y_z == <<121, 44, 122>>     \* "y,z"
STR_x0 == <<120, 58, 48>>       \* "x:0"
STR_y0 == <<121, 58, 48>>       \* "y:0"
STR_z1 == <<122, 58, 49>>       \* "z:1"
STR_x00 == <<120, 58, 48, 58, 48>>  \* "x:0:0"

SAVED_MODEL_FILE_NAME == "/saved_model.pb"
SAVED_MODEL_INIT_OP_KEY == "__saved_model_init_op"

\* a < b in the order Array.prototype.sort uses by default (code units)
RECURSIVE StrLess(_, _)
StrLess(a, b) ==
    IF b = <<>> THEN FALSE
    ELSE IF a = <<>> THEN TRUE
    ELSE IF a[1] # b[1] THEN a[1] < b[1]
    ELSE StrLess(Tail(a), Tail(b))

RECURSIVE SortInsert(_, _)
SortInsert(x, sorted) ==
    IF sorted = <<>> THEN <<x>>
    ELSE IF StrLess(x, Head(sorted)) THEN <<x>> \o sorted
    ELSE <<Head(sorted)>> \o SortInsert(x, Tail(sorted))

\* a sort that leaves the array as it is
sort_Unsorted(arr) == arr

\* Array.prototype.sort() with no comparator
RECURSIVE sort(_)
sort(arr) == IF arr = <<>> THEN <<>> ELSE SortInsert(Head(arr), sort(Tail(arr)))

\* Array.prototype.join() with no separator argument: joined with ","
RECURSIVE join(_)
join(arr) ==
    IF arr = <<>> THEN <<>>
    ELSE IF Len(arr) = 1 THEN arr[1]
    ELSE arr[1] \o <<Comma>> \o join(Tail(arr))

\* the elements of an array, as a set
Elements(arr) == {arr[i] : i \in 1..Len(arr)}

\* how often x occurs in arr
Occurrences(arr, x) == Cardinality({i \in 1..Len(arr) : arr[i] = x})

\* arr and brr hold the same elements the same number of times
IsPermutation(arr, brr) ==
    /\ Len(arr) = Len(brr)
    /\ \A x \in Elements(arr) \cup Elements(brr) : Occurrences(arr, x) = Occurrences(brr, x)

----------------------------------------------------------------------------
(* stringArraysHaveSameElements, src/file.ts:322-328 *)

stringArraysHaveSameElements(arrayA, arrayB) ==
    /\ Len(arrayA) = Len(arrayB)
    /\ join(sort(arrayA)) = join(sort(arrayB))

\* what the call leaves in an argument array: sort() is in place, and is only
\* reached when the lengths are equal (the && short-circuits)
ArrayAfterCompare(array, other) ==
    IF Len(array) = Len(other) THEN sort(array) ELSE array

----------------------------------------------------------------------------
(* mapTFDtypeToJSDtype, src/file.ts:331-348 *)

UnsupportedDtype == "UnsupportedDtype"

mapTFDtypeToJSDtype(tfDtype) ==
    CASE tfDtype = "DR_FLOAT" -> "float32"
      [] tfDtype \in {"DT_INT64", "DT_INT32", "DT_UINT8"} -> "int32"
      [] tfDtype = "DT_BOOL" -> "bool"
      [] tfDtype = "DT_COMPLEX64" -> "complex64"
      [] tfDtype = "DT_STRING" -> "string"
      [] OTHER -> UnsupportedDtype

\* messages.DataType of ./proto/api_pb: enum name -> number, in key order
DataType ==
    << <<"DT_INVALID", 0>>, <<"DT_FLOAT", 1>>, <<"DT_DOUBLE", 2>>, <<"DT_INT32", 3>>,
       <<"DT_UINT8", 4>>, <<"DT_STRING", 7>>, <<"DT_COMPLEX64", 8>>, <<"DT_INT64", 9>>,
       <<"DT_BOOL", 10>> >>

\* Object.keys(object).find(key => object[key] === value)
getEnumKeyFromValue(object, value) ==
    IF \E i \in 1..Len(object) : object[i][2] = value
    THEN object[CHOOSE i \in 1..Len(object) :
                    /\ object[i][2] = value
                    /\ \A j \in 1..(i - 1) : object[j][2] # value][1]
    ELSE Undefined

----------------------------------------------------------------------------
(* Objects with string keys: a sequence of [key, value] in Object.keys order *)

Keys(obj) == [i \in 1..Len(obj) |-> obj[i].key]
Values(obj) == [i \in 1..Len(obj) |-> obj[i].value]
HasKey(obj, k) == \E i \in 1..Len(obj) : obj[i].key = k
\* obj[k]: undefined when the key is absent
Get(obj, k) ==
    IF HasKey(obj, k) THEN obj[CHOOSE i \in 1..Len(obj) : obj[i].key = k].value
    ELSE Undefined

----------------------------------------------------------------------------
(* The descriptors on disk: what readSavedModelProto deserializes per path *)

TensorMsg(key, name, dtype) ==
    [key |-> key, name |-> name, dtype |-> dtype, shape |-> <<-1, 3>>]

SignatureMsg(key, inputs, outputs) ==
    [key |-> key, inputs |-> inputs, outputs |-> outputs]

InitOpSignature ==
    SignatureMsg(SAVED_MODEL_INIT_OP_KEY, <<>>, <<TensorMsg(STR_y, STR_y, 0)>>)

ServingSignature ==
    SignatureMsg("serving_default",
                 <<TensorMsg(STR_x, STR_x0, 3)>>,
                 <<TensorMsg(STR_y, STR_y0, 9)>>)

OtherSignature ==
    SignatureMsg("other",
                 <<TensorMsg(STR_x, STR_x00, 3), TensorMsg(STR_z, STR_z1, 10)>>,
                 <<TensorMsg(STR_y, STR_y0, 4), TensorMsg(STR_z, STR_z1, 7)>>)

CommaSignature ==
    SignatureMsg("serving_default",
                 <<TensorMsg(STR_x_y, STR_x0, 3), TensorMsg(STR_z, STR_z1, 8)>>,
                 <<TensorMsg(STR_y, STR_y, 3)>>)

FloatSignature ==
    SignatureMsg("serving_default",
                 <<TensorMsg(STR_x, STR_x0, 1)>>,
                 <<TensorMsg(STR_y, STR_y0, 1)>>)

Paths == {"p1", "p2", "pf", "nofile"}

\* fs.accessSync(path + SAVED_MODEL_FILE_NAME, R_OK) succeeds
FileReadable(file) == file \in {p \o SAVED_MODEL_FILE_NAME : p \in {"p1", "p2", "pf"}}

\* the metagraph list of the SavedModel message stored under a path
SavedModelMessage(path) ==
    CASE path = "p1" ->
            << [tags |-> <<STR_s>>, signatureDefMap |-> <<InitOpSignature, ServingSignature>>],
               [tags |-> <<STR_s, STR_e>>, signatureDefMap |-> <<OtherSignature>>],
               [tags |-> <<STR_e, STR_s>>,
                signatureDefMap |-> <<ServingSignature, OtherSignature>>] >>
      [] path = "p2" ->
            << [tags |-> <<STR_e_s, STR_s>>, signatureDefMap |-> <<CommaSignature>>] >>
      [] path = "pf" ->
            << [tags |-> <<STR_s>>, signatureDefMap |-> <<FloatSignature>>] >>
      [] OTHER -> <<>>

----------------------------------------------------------------------------
(* readSavedModelProto, src/file.ts:61-71 *)

readSavedModelProto(path) ==
    IF FileReadable(path \o SAVED_MODEL_FILE_NAME)
    THEN [error |-> NoError, value |-> SavedModelMessage(path)]
    ELSE [error |-> "NotFound", value |-> Undefined]

----------------------------------------------------------------------------
(* getMetaGraphsFromSavedModel, src/file.ts:81-157 *)

\* lines 121-128 and 140-147: one ModelTensorInfo from one tensor message
TensorInfoOf(tensor) ==
    LET dtype == getEnumKeyFromValue(DataType, tensor.dtype)
    IN  [dtype |-> mapTFDtypeToJSDtype(dtype), tfDtype |-> dtype,
         name |-> tensor.name, shape |-> tensor.shape]

TensorMapOf(mapMessage) ==
    [i \in 1..Len(mapMessage) |->
        [key |-> mapMessage[i].key, value |-> TensorInfoOf(mapMessage[i])]]

\* a loop that skips no key
SignatureKept_All(signatureDefEntry) == TRUE

\* lines 106-109: the signature keys the loop does not skip
SignatureKept(signatureDefEntry) == signatureDefEntry.key # SAVED_MODEL_INIT_OP_KEY

SignatureDefOf(signatureDefMap) ==
    LET kept == SelectSeq(signatureDefMap, SignatureKept)
    IN  [i \in 1..Len(kept) |->
            [key |-> kept[i].key,
             value |-> [inputs |-> TensorMapOf(kept[i].inputs),
                        outputs |-> TensorMapOf(kept[i].outputs)]]]

MetaGraphOf(metaGraphMsg) ==
    [tags |-> metaGraphMsg.tags, signatureDefs |-> SignatureDefOf(metaGraphMsg.signatureDefMap)]

\* mapTFDtypeToJSDtype threw for some tensor of some signature that is not skipped
SomeDtypeUnsupported(result) ==
    \E g \in 1..Len(result) : \E s \in 1..Len(result[g].signatureDefs) :
        LET entry == result[g].signatureDefs[s].value
        IN  \/ \E t \in 1..Len(entry.inputs) : entry.inputs[t].value.dtype = UnsupportedDtype
            \/ \E t \in 1..Len(entry.outputs) : entry.outputs[t].value.dtype = UnsupportedDtype

\* lines 92-156: the loop over modelMessage.getMetaGraphsList()
MetaGraphsOfList(metaGraphList) ==
    LET result == [i \in 1..Len(metaGraphList) |-> MetaGraphOf(metaGraphList[i])]
    IN  IF SomeDtypeUnsupported(result)
        THEN [error |-> UnsupportedDtype, value |-> Undefined]
        ELSE [error |-> NoError, value |-> result]

getMetaGraphsFromSavedModel(path) ==
    LET modelMessage == readSavedModelProto(path)
    IN  IF modelMessage.error # NoError
        THEN modelMessage
        ELSE MetaGraphsOfList(modelMessage.value)

----------------------------------------------------------------------------
(* getSignatureDefEntryFromMetaGraphinfo, src/file.ts:167-177 *)

\* the loop from index i on; tags is the caller's array, sorted in place by
\* each comparison that gets past the length test
RECURSIVE SignatureLookupFrom(_, _, _, _)
SignatureLookupFrom(savedModelInfo, i, tags, signature) ==
    IF i > Len(savedModelInfo)
    THEN [error |-> "TagsNotFound", value |-> Undefined, tags |-> tags]
    ELSE IF stringArraysHaveSameElements(tags, savedModelInfo[i].tags)
         THEN IF ~HasKey(savedModelInfo[i].signatureDefs, signature)
              THEN [error |-> "SignatureNotFound", value |-> Undefined, tags |-> sort(tags)]
              ELSE [error |-> NoError,
                    value |-> Get(savedModelInfo[i].signatureDefs, signature),
                    tags |-> sort(tags)]
         ELSE SignatureLookupFrom(savedModelInfo, i + 1,
                                  ArrayAfterCompare(tags, savedModelInfo[i].tags), signature)

getSignatureDefEntryFromMetaGraphinfo(savedModelInfo, tags, signature) ==
    SignatureLookupFrom(savedModelInfo, 1, tags, signature)

----------------------------------------------------------------------------
(* State *)

VARIABLES
    loadedSavedModelPath,   \* Map<number, {path, tags, sessionId}>, src/file.ts:37
    nextTfSavedModelId,     \* src/file.ts:42
    models,                 \* the TFSavedModel objects constructed so far, by jsid
    backend,                \* the native backend: its live sessions and next session id
    last,                   \* the operation that ran last: outcome and backend calls
    promises                \* the promises of the loadSavedModel calls that were left
                            \* at their await (line 301): pending, or settled since

vars == <<loadedSavedModelPath, nextTfSavedModelId, models, backend, last, promises>>

\* "let sessionId: number;" before the scan assigns it: sessionId == null holds
NoSessionId == -1

\* Array.from(map.keys()): insertion order, which is ascending id order because
\* ids only grow and an id is set once
RECURSIVE KeySeq(_)
KeySeq(ids) ==
    IF ids = {} THEN <<>>
    ELSE LET least == CHOOSE k \in ids : \A j \in ids : k <= j
         IN  <<least>> \o KeySeq(ids \ {least})

NoValue == [kind |-> "undefined", v |-> Undefined]

\* the record of one call: the operation, its arguments, the handle id it is
\* about, how it ended, what it returned and the backend calls it made, in order
Outcome(op, args, target, error, value, calls) ==
    [op |-> op, args |-> args, target |-> target, error |-> error, value |-> value,
     calls |-> calls]

NoArgs == [kind |-> "none"]

----------------------------------------------------------------------------
(* The native backend (nodejs_kernel_backend), as the calls of this file use it *)

\* backend.loadSavedModelMetaGraph(path, tagsString): a new session, a new id
BackendAfterLoad(b) ==
    [sessions |-> b.sessions \cup {b.nextSessionId}, nextSessionId |-> b.nextSessionId + 1]

\* backend.deleteSavedModel(sessionId)
BackendAfterDelete(b, sessionId) == [b EXCEPT !.sessions = @ \ {sessionId}]

\* tensors a caller passes
InputTensors == {"t1", "t2"}

\* the i-th tensor of a list the backend returns
OutputTensorAt(i) == <<"r", i>>

\* what backend.runSavedModel may return: the backend is not bound to the
\* number of output nodes it was asked for
RunResults == {[i \in 1..n |-> OutputTensorAt(i)] : n \in 0..MaxResultLen}

\* one call of backend.runSavedModel: its arguments, whether the session was
\* live when it was made, and the tensors it returned
RunCall(sessionId, inputTensors, inputNodeInfos, outputNodeNames, result) ==
    [fn |-> "runSavedModel", sessionId |-> sessionId, inputTensors |-> inputTensors,
     inputNodeInfos |-> inputNodeInfos, outputNodeNames |-> outputNodeNames,
     live |-> sessionId \in backend.sessions, result |-> result]

----------------------------------------------------------------------------
(* loadSavedModel, src/file.ts:296-319 *)

\* a scan that compares the tag arrays with ===: the array of a new call is
\* never the array object an entry stores
RegistryEntryMatches_ArrayIdentity(modelInfo, path, tags) ==
    modelInfo.path = path /\ FALSE

\* line 307: the entry is one to reuse
RegistryEntryMatches(modelInfo, path, tags) ==
    modelInfo.path = path /\ stringArraysHaveSameElements(modelInfo.tags, tags)

\* a load that does not scan the registry
ReuseScan_Skipped(map, keys, path, tags, sessionId) == sessionId

\* lines 304-310: the scan assigns on every match and does not break
RECURSIVE ReuseScan(_, _, _, _, _)
ReuseScan(map, keys, path, tags, sessionId) ==
    IF keys = <<>> THEN sessionId
    ELSE LET modelInfo == map[Head(keys)]
         IN  ReuseScan(map, Tail(keys), path, tags,
                       IF RegistryEntryMatches(modelInfo, path, tags)
                       THEN modelInfo.sessionId ELSE sessionId)

\* the scan sorts, in place, the tags of every entry whose comparison gets
\* past the path test and the length test
RegistryAfterScan(map, path, tags) ==
    [id \in DOMAIN map |->
        IF map[id].path = path
        THEN [map[id] EXCEPT !.tags = ArrayAfterCompare(@, tags)]
        ELSE map[id]]

\* an id counter that is read and not incremented
NextIdAfter_NoIncrement(id) == id

\* line 315: const id = nextTfSavedModelId++
NextIdAfter(id) == id + 1

\* a load that records no entry of its own when it reuses a session
RegistryAfterSet_SkipOnReuse(map, id, entry) ==
    IF \E k \in DOMAIN map : map[k].sessionId = entry.sessionId
    THEN map
    ELSE [k \in DOMAIN map \cup {id} |-> IF k = id THEN entry ELSE map[k]]

\* line 317: loadedSavedModelPath.set(id, {path, tags, sessionId})
RegistryAfterSet(map, id, entry) ==
    [k \in DOMAIN map \cup {id} |-> IF k = id THEN entry ELSE map[k]]

\* line 316: new TFSavedModel(sessionId, id, signatureDefEntry, backend)
NewTFSavedModel(sessionId, jsid, signature) ==
    [sessionId |-> sessionId, jsid |-> jsid, signature |-> signature,
     disposed |-> FALSE, outputNodeName_ |-> <<>>, cached |-> FALSE]

LoadArgs(path, tags, signature) ==
    [kind |-> "load", path |-> path, tags |-> tags, signature |-> signature]

\* a load that takes its handle id before it validates
FailLoad_IdTaken(args, error) ==
    /\ last' = Outcome("loadSavedModel", args, nextTfSavedModelId, error, NoValue, <<>>)
    /\ nextTfSavedModelId' = nextTfSavedModelId + 1
    /\ UNCHANGED <<loadedSavedModelPath, models, backend>>

\* lines 301-302: the throw of the descriptor reader or of the signature lookup
\* leaves loadSavedModel before any of lines 304-318 has run
FailLoad(args, error) ==
    /\ last' = Outcome("loadSavedModel", args, nextTfSavedModelId, error, NoValue, <<>>)
    /\ UNCHANGED <<loadedSavedModelPath, nextTfSavedModelId, models, backend>>

\* lines 302-318, which run without suspension once the descriptor is read
LoadRest(path, tags, signature, savedModelInfo) ==
    LET lookup == getSignatureDefEntryFromMetaGraphinfo(savedModelInfo, tags, signature)
    IN  IF lookup.error # NoError
        THEN FailLoad(LoadArgs(path, tags, signature), lookup.error)
        ELSE LET sortedTags == lookup.tags
                 found == ReuseScan(loadedSavedModelPath, KeySeq(DOMAIN loadedSavedModelPath),
                                    path, sortedTags, NoSessionId)
                 scanned == RegistryAfterScan(loadedSavedModelPath, path, sortedTags)
                 create == (found = NoSessionId)
                 tagsString == join(sortedTags)
                 sessionId == IF create THEN backend.nextSessionId ELSE found
                 id == nextTfSavedModelId
                 calls == IF create
                          THEN <<[fn |-> "loadSavedModelMetaGraph", path |-> path,
                                  tagsString |-> tagsString]>>
                          ELSE <<>>
             IN  /\ backend' = IF create THEN BackendAfterLoad(backend) ELSE backend
                 /\ nextTfSavedModelId' = NextIdAfter(nextTfSavedModelId)
                 /\ models' = [k \in DOMAIN models \cup {id} |->
                                 IF k = id THEN NewTFSavedModel(sessionId, id, lookup.value)
                                 ELSE models[k]]
                 /\ loadedSavedModelPath' =
                        RegistryAfterSet(scanned, id,
                                         [path |-> path, tags |-> sortedTags,
                                          sessionId |-> sessionId])
                 /\ last' = Outcome("loadSavedModel", LoadArgs(path, tags, signature), id,
                                    NoError, [kind |-> "model", v |-> id], calls)

\* the tag arrays and signature names callers pass
TagArgs ==
    { <<STR_s>>, <<STR_s, STR_e>>, <<STR_e, STR_s>>, <<STR_e, STR_s_s>>,
      <<STR_e_s, STR_s>>, <<STR_s, STR_s>> }

SignatureArgs == {"serving_default", "other"}

\* line 301 for each path a caller passes (the descriptors on disk do not change)
SavedModelInfoByPath == [path \in Paths |-> getMetaGraphsFromSavedModel(path)]

\* a call that is awaited before any other call is made
loadSavedModel(path, tags, signature) ==
    /\ nextTfSavedModelId < MaxLoads
    /\ UNCHANGED promises
    /\ LET savedModelInfo == SavedModelInfoByPath[path]
       IN  IF savedModelInfo.error # NoError
           THEN FailLoad(LoadArgs(path, tags, signature), savedModelInfo.error)
           ELSE LoadRest(path, tags, signature, savedModelInfo.value)

\* the handle field of a promise that has no handle
NoHandle == -1

\* lines 296-301: the call runs to the await of getMetaGraphsFromSavedModel and
\* returns its promise; calledAt is the value of nextTfSavedModelId at the call
loadSavedModelCall(path, tags, signature) ==
    /\ Len(promises) < MaxLoads
    /\ promises' = Append(promises, [args |-> LoadArgs(path, tags, signature),
                                     calledAt |-> nextTfSavedModelId,
                                     settled |-> FALSE, handle |-> NoHandle])
    /\ UNCHANGED <<loadedSavedModelPath, nextTfSavedModelId, models, backend, last>>

\* lines 301-318: the continuation of the i-th call, from the await to the
\* return; no await, no callback and no generator step lies in these lines
loadSavedModelResume(i) ==
    /\ i \in DOMAIN promises
    /\ ~promises[i].settled
    /\ LET args == promises[i].args
           savedModelInfo == SavedModelInfoByPath[args.path]
       IN  IF savedModelInfo.error # NoError
           THEN FailLoad(args, savedModelInfo.error)
           ELSE LoadRest(args.path, args.tags, args.signature, savedModelInfo.value)
    /\ promises' = [promises EXCEPT ![i].settled = TRUE,
                                    ![i].handle = IF last'.error = NoError
                                                  THEN last'.target ELSE NoHandle]

----------------------------------------------------------------------------
(* TFSavedModel.dispose, src/file.ts:220-235 *)

\* a dispose that leaves its own entry in the registry
RegistryAfterDelete_Kept(map, jsid) == map

\* line 224: loadedSavedModelPath.delete(this.jsid)
RegistryAfterDelete(map, jsid) == [k \in DOMAIN map \ {jsid} |-> map[k]]

\* a dispose that never looks for other holders of the session
SessionStillReferenced_Never(map, sessionId) == FALSE

\* lines 225-230: some surviving entry holds the session, so dispose returns
SessionStillReferenced(map, sessionId) ==
    \E id \in DOMAIN map : map[id].sessionId = sessionId

\* a dispose without its disposed check
MayDispose_Always(model) == TRUE

\* line 221: the guard of the disposing branch
MayDispose(model) == ~model.disposed

dispose(jsid) ==
    /\ jsid \in DOMAIN models
    /\ UNCHANGED promises
    /\ LET this == models[jsid]
       IN  IF MayDispose(this)
           THEN LET remaining == RegistryAfterDelete(loadedSavedModelPath, this.jsid)
                    release == ~SessionStillReferenced(remaining, this.sessionId)
                IN  /\ models' = [models EXCEPT ![jsid].disposed = TRUE]
                    /\ loadedSavedModelPath' = remaining
                    /\ backend' = IF release
                                  THEN BackendAfterDelete(backend, this.sessionId)
                                  ELSE backend
                    /\ last' = Outcome("dispose", NoArgs, jsid, NoError, NoValue,
                                       IF release
                                       THEN <<[fn |-> "deleteSavedModel",
                                               sessionId |-> this.sessionId]>>
                                       ELSE <<>>)
                    /\ UNCHANGED nextTfSavedModelId
           ELSE /\ last' = Outcome("dispose", NoArgs, jsid, "AlreadyDisposed", NoValue, <<>>)
                /\ UNCHANGED <<loadedSavedModelPath, nextTfSavedModelId, models, backend>>

----------------------------------------------------------------------------
(* TFSavedModel.outputNodeNames, src/file.ts:237-246 *)

\* lines 241-244: key -> this.signature.outputs[key].name, in key order
OutputNodeNamesFresh(signature) ==
    [i \in 1..Len(signature.outputs) |->
        [key |-> signature.outputs[i].key, value |-> signature.outputs[i].value.name]]

\* the value of the getter: the cached table when there is one
outputNodeNames(model) ==
    IF model.cached THEN model.outputNodeName_ ELSE OutputNodeNamesFresh(model.signature)

\* the handle after the getter ran
ModelAfterOutputNodeNames(model) ==
    [model EXCEPT !.outputNodeName_ = outputNodeNames(model), !.cached = TRUE]

----------------------------------------------------------------------------
(* TFSavedModel.inputs and TFSavedModel.outputs, src/file.ts:197-218 *)

\* a replace that drops any one-digit output index: name.replace(/:[01]$/, '')
ReplaceColonZero_AnyIndex(name) ==
    IF Len(name) >= 2 /\ name[Len(name) - 1] = Colon
                      /\ name[Len(name)] \in {DigitZero, DigitZero + 1}
    THEN SubSeq(name, 1, Len(name) - 2)
    ELSE name

\* lines 201 and 215: info.name.replace(/:0$/, '')
ReplaceColonZero(name) ==
    IF Len(name) >= 2 /\ name[Len(name) - 1] = Colon /\ name[Len(name)] = DigitZero
    THEN SubSeq(name, 1, Len(name) - 2)
    ELSE name

\* lines 200-202 and 214-216: the forEach assigns info.name on the objects the
\* signature holds, so the entries are those of the signature after the call
EntriesAfterRead(entries) ==
    [i \in 1..Len(entries) |->
        [key |-> entries[i].key,
         value |-> [entries[i].value EXCEPT !.name = ReplaceColonZero(@)]]]

\* get inputs(): no test of this.disposed, no backend call
inputsGetter(jsid) ==
    /\ jsid \in DOMAIN models
    /\ LET entries == EntriesAfterRead(models[jsid].signature.inputs)
       IN  /\ models' = [models EXCEPT ![jsid].signature.inputs = entries]
           /\ last' = Outcome("inputs", NoArgs, jsid, NoError,
                              [kind |-> "infos", v |-> Values(entries)], <<>>)
    /\ UNCHANGED <<loadedSavedModelPath, nextTfSavedModelId, backend, promises>>

\* get outputs()
outputsGetter(jsid) ==
    /\ jsid \in DOMAIN models
    /\ LET entries == EntriesAfterRead(models[jsid].signature.outputs)
       IN  /\ models' = [models EXCEPT ![jsid].signature.outputs = entries]
           /\ last' = Outcome("outputs", NoArgs, jsid, NoError,
                              [kind |-> "infos", v |-> Values(entries)], <<>>)
    /\ UNCHANGED <<loadedSavedModelPath, nextTfSavedModelId, backend, promises>>

----------------------------------------------------------------------------
(* TFSavedModel.predict, src/file.ts:248-290 *)

\* the three shapes of the inputs argument
TensorInputs == {[kind |-> "tensor", v |-> t] : t \in InputTensors}

ListInputs ==
    {[kind |-> "list", v |-> l] :
        l \in UNION {[1..n -> InputTensors] : n \in 1..Cardinality(InputTensors)}}

\* the names a caller may use as keys of a NamedTensorMap
InputNameArgs == {STR_x, STR_z, STR_x_y, STR_y_z}

\* the key lists of the maps callers pass: no key twice, in insertion order
KeyLists ==
    {<<>>} \cup {<<a>> : a \in InputNameArgs}
           \cup {<<a, b>> : <<a, b>> \in {q \in InputNameArgs \X InputNameArgs : q[1] # q[2]}}

\* the i-th inserted key carries the i-th tensor
NthTensor(i) == IF i = 1 THEN "t1" ELSE "t2"

MapInputs ==
    {[kind |-> "map", v |-> [i \in 1..Len(ks) |-> [key |-> ks[i], value |-> NthTensor(i)]]] :
        ks \in KeyLists}

PredictInputs == TensorInputs \cup ListInputs \cup MapInputs

\* a predict without its disposed check
PredictRefused_Never(model) == FALSE

\* line 249: the guard of the failing branch
PredictRefused(model) == model.disposed

\* line 256: result.length > 1 ? result : result[0]
SingleTensorResult(result) ==
    IF Len(result) > 1 THEN [kind |-> "list", v |-> result]
    ELSE IF Len(result) = 1 THEN [kind |-> "tensor", v |-> result[1]]
    ELSE NoValue

\* line 263: the provided names are accepted
InputNamesAccepted(inputTensorNames, providedInputNames) ==
    stringArraysHaveSameElements(inputTensorNames, providedInputNames)

\* a predict that passes the tensors in the order of the keys of the map
InputTensorsInDeclaredOrder_AsProvided(inputTensorNames, inputs) == Values(inputs)

\* lines 266-270: inputs[inputTensorNames[i]], in declared order
InputTensorsInDeclaredOrder(inputTensorNames, inputs) ==
    [i \in 1..Len(inputTensorNames) |-> Get(inputs, inputTensorNames[i])]

InputNodeNamesArray(signature, inputTensorNames) ==
    [i \in 1..Len(inputTensorNames) |-> Get(signature.inputs, inputTensorNames[i])]

\* lines 271-280: the output node names in key order
OutputNodeNamesArray(names, outputTensorNames) ==
    [i \in 1..Len(outputTensorNames) |-> Get(names, outputTensorNames[i])]

\* a predict without the assertion on the number of tensors returned
OutputCountAsserted_Unchecked(outputTensors, outputNodeNamesArray) == TRUE

\* line 282: the condition util.assert is given
OutputCountAsserted(outputTensors, outputNodeNamesArray) ==
    Len(outputTensors) = Len(outputNodeNamesArray)

\* lines 283-287: outputMap[outputTensorNames[i]] = outputTensors[i]
OutputMapOf(outputTensorNames, outputTensors) ==
    [i \in 1..Len(outputTensorNames) |->
        [key |-> outputTensorNames[i],
         value |-> IF i <= Len(outputTensors) THEN outputTensors[i] ELSE Undefined]]

PredictTensor(jsid, inputs, result) ==
    LET this == models[jsid]
        call == RunCall(this.sessionId, <<inputs.v>>, Values(this.signature.inputs),
                        Values(outputNodeNames(this)), result)
    IN  /\ models' = [models EXCEPT ![jsid] = ModelAfterOutputNodeNames(this)]
        /\ last' = Outcome("predict", inputs, jsid, NoError, SingleTensorResult(result),
                           <<call>>)

PredictList(jsid, inputs, result) ==
    LET this == models[jsid]
        call == RunCall(this.sessionId, inputs.v, Values(this.signature.inputs),
                        Values(outputNodeNames(this)), result)
    IN  /\ models' = [models EXCEPT ![jsid] = ModelAfterOutputNodeNames(this)]
        /\ last' = Outcome("predict", inputs, jsid, NoError, [kind |-> "list", v |-> result],
                           <<call>>)

PredictMap(jsid, inputs, result) ==
    LET this == models[jsid]
        inputTensorNames == Keys(this.signature.inputs)
        providedInputNames == Keys(inputs.v)
    IN  IF ~InputNamesAccepted(inputTensorNames, providedInputNames)
        THEN /\ last' = Outcome("predict", inputs, jsid, "InputMismatch", NoValue, <<>>)
             /\ UNCHANGED models
        ELSE LET inputTensors == InputTensorsInDeclaredOrder(inputTensorNames, inputs.v)
                 inputNodeNamesArray == InputNodeNamesArray(this.signature, inputTensorNames)
                 names == outputNodeNames(this)
                 outputTensorNames == Keys(names)
                 outputNodeNamesArray == OutputNodeNamesArray(names, outputTensorNames)
                 call == RunCall(this.sessionId, inputTensors, inputNodeNamesArray,
                                 outputNodeNamesArray, result)
             IN  /\ models' = [models EXCEPT ![jsid] = ModelAfterOutputNodeNames(this)]
                 /\ last' =
                        IF OutputCountAsserted(result, outputNodeNamesArray)
                        THEN Outcome("predict", inputs, jsid, NoError,
                                     [kind |-> "map",
                                      v |-> OutputMapOf(outputTensorNames, result)],
                                     <<call>>)
                        ELSE Outcome("predict", inputs, jsid, "OutputCountMismatch", NoValue,
                                     <<call>>)

predict(jsid, inputs) ==
    /\ jsid \in DOMAIN models
    /\ IF PredictRefused(models[jsid])
       THEN /\ last' = Outcome("predict", inputs, jsid, "UseAfterDispose", NoValue, <<>>)
            /\ UNCHANGED models
       ELSE \E result \in RunResults :
                CASE inputs.kind = "tensor" -> PredictTensor(jsid, inputs, result)
                  [] inputs.kind = "list" -> PredictList(jsid, inputs, result)
                  [] OTHER -> PredictMap(jsid, inputs, result)
    /\ UNCHANGED <<loadedSavedModelPath, nextTfSavedModelId, backend, promises>>

----------------------------------------------------------------------------
(* The program: any caller, any order of calls, one call at a time *)

Init ==
    /\ loadedSavedModelPath = <<>>
    /\ nextTfSavedModelId = 0
    /\ models = <<>>
    /\ backend = [sessions |-> {}, nextSessionId |-> 0]
    /\ last = Outcome("none", NoArgs, 0, NoError, NoValue, <<>>)
    /\ promises = <<>>

Load == \E path \in Paths, tags \in TagArgs, signature \in SignatureArgs :
            loadSavedModel(path, tags, signature)

Dispose == \E jsid \in DOMAIN models : dispose(jsid)

\* a caller that only ever passes one tensor
ProbeInputs == {[kind |-> "tensor", v |-> "t1"]}

Probe == \E jsid \in DOMAIN models, inputs \in ProbeInputs : predict(jsid, inputs)

Next == Load \/ Dispose \/ Probe

\* the registry and the handles' lifetimes, under every order of loads and disposes
Spec == Init /\ [][Next]_vars

\* predict in full: every input shape, on the handles of at most MaxPredictLoads loads
LoadFew == nextTfSavedModelId < MaxPredictLoads /\ Load

Predict == \E jsid \in DOMAIN models, inputs \in PredictInputs : predict(jsid, inputs)

NextPredict == LoadFew \/ Dispose \/ Predict

SpecPredict == Init /\ [][NextPredict]_vars

\* the accessors with loads, disposes and predict, on the handles of at most
\* MaxPredictLoads loads
ReadInputs == \E jsid \in DOMAIN models : inputsGetter(jsid)

ReadOutputs == \E jsid \in DOMAIN models : outputsGetter(jsid)

NextAccessors == LoadFew \/ Dispose \/ ReadInputs \/ ReadOutputs \/ Probe

SpecAccessors == Init /\ [][NextAccessors]_vars

----------------------------------------------------------------------------
(* Calls of loadSavedModel in flight together: a call may be made while the
   promises of earlier calls are pending, and the pending calls resume in any
   order; at most MaxLoads calls are made *)

\* the calls the callers of this specification make
OverlapCalls ==
    { LoadArgs("p1", <<STR_s, STR_e>>, "other"), LoadArgs("p1", <<STR_e, STR_s>>, "other"),
      LoadArgs("p1", <<STR_s>>, "serving_default"),
      LoadArgs("pf", <<STR_s>>, "serving_default") }

CallLoad == \E args \in OverlapCalls : loadSavedModelCall(args.path, args.tags, args.signature)

ResumeLoad == \E i \in DOMAIN promises : loadSavedModelResume(i)

NextOverlap == CallLoad \/ ResumeLoad \/ Dispose

\* a promise that can settle does settle: the event loop runs the continuation
SpecOverlap == Init /\ [][NextOverlap]_vars /\ WF_vars(ResumeLoad)

----------------------------------------------------------------------------
(* The signature lookup on its own: every MetaGraph list of up to MaxGraphs
   graphs, every tag array and signature name a caller passes *)

\* the tag lists descriptors give their graphs
GraphTags == { <<STR_s>>, <<STR_s, STR_e>>, <<STR_e_s, STR_s>> }

\* the signatureDefs of the i-th graph of a list: one entry per key in keys,
\* each entry marked with i, so that entries of different graphs differ
GraphSignatureDefs(keys, i) ==
    LET entry == [inputs |-> <<>>,
                  outputs |-> <<[key |-> STR_y,
                                 value |-> [dtype |-> "int32", tfDtype |-> "DT_INT32",
                                            name |-> <<DigitZero + i>>,
                                            shape |-> <<-1, 3>>]]>>]
        all == <<"serving_default", "other">>
        kept == SelectSeq(all, LAMBDA k : k \in keys)
    IN  [j \in 1..Len(kept) |-> [key |-> kept[j], value |-> entry]]

GraphChoices == [tags : GraphTags, keys : SUBSET SignatureArgs]

MetaGraphLists ==
    UNION { { [i \in 1..n |->
                 [tags |-> c[i].tags, signatureDefs |-> GraphSignatureDefs(c[i].keys, i)]] :
              c \in [1..n -> GraphChoices] } : n \in 0..MaxGraphs }

\* one call per behaviour: the lookup reads and writes no state of the module
Lookup ==
    \E savedModelInfo \in MetaGraphLists, tags \in TagArgs, signature \in SignatureArgs :
        LET lookup == getSignatureDefEntryFromMetaGraphinfo(savedModelInfo, tags, signature)
        IN  /\ last.op = "none"
            /\ last' = Outcome("getSignatureDefEntryFromMetaGraphinfo",
                               [kind |-> "lookup", savedModelInfo |-> savedModelInfo,
                                tags |-> tags, signature |-> signature],
                               0, lookup.error,
                               IF lookup.error = NoError
                               THEN [kind |-> "entry", v |-> lookup.value]
                               ELSE NoValue,
                               <<>>)
            /\ UNCHANGED <<loadedSavedModelPath, nextTfSavedModelId, models, backend,
                           promises>>

SpecLookup == Init /\ [][Lookup]_vars

----------------------------------------------------------------------------
(* The descriptor inspection on its own: every descriptor of up to MaxGraphs
   graphs, each graph with one of GraphTags and one of InspectSignatureMaps *)

\* an init op signature whose tensor has a dtype the mapper knows
InitOpTyped ==
    SignatureMsg(SAVED_MODEL_INIT_OP_KEY, <<>>, <<TensorMsg(STR_y, STR_y, 3)>>)

\* a signature whose tensors are DT_DOUBLE and DT_INVALID
UnmappedSignature ==
    SignatureMsg("other", <<TensorMsg(STR_x, STR_x0, 2)>>, <<TensorMsg(STR_y, STR_y0, 0)>>)

InspectSignatureMaps ==
    { <<>>, <<InitOpSignature>>, <<InitOpTyped, ServingSignature>>,
      <<ServingSignature, InitOpSignature, OtherSignature>>,
      <<OtherSignature, ServingSignature>>, <<FloatSignature>>, <<CommaSignature>>,
      <<UnmappedSignature>> }

InspectGraphs == [tags : GraphTags, signatureDefMap : InspectSignatureMaps]

Descriptors == UNION { [1..n -> InspectGraphs] : n \in 0..MaxGraphs }

\* one call per behaviour, on a file that is there: the inspection writes no
\* state of the module
Inspect ==
    \E metaGraphList \in Descriptors :
        LET inspected == MetaGraphsOfList(metaGraphList)
        IN  /\ last.op = "none"
            /\ last' = Outcome("getMetaGraphsFromSavedModel",
                               [kind |-> "inspect", metaGraphList |-> metaGraphList],
                               0, inspected.error,
                               IF inspected.error = NoError
                               THEN [kind |-> "metagraphs", v |-> inspected.value]
                               ELSE NoValue,
                               <<>>)
            /\ UNCHANGED <<loadedSavedModelPath, nextTfSavedModelId, models, backend,
                           promises>>

SpecInspect == Init /\ [][Inspect]_vars

----------------------------------------------------------------------------
(* The tag comparison on its own: every two lists of up to MaxTags tags *)

\* the tags callers and descriptors use, two of them with a comma
TagPool == {STR_s, STR_e, STR_s_s, STR_e_s}

TagLists == UNION { [1..n -> TagPool] : n \in 0..MaxTags }

\* one call per behaviour: the comparison reads and writes no state of the module
Compare ==
    \E arrayA \in TagLists, arrayB \in TagLists :
        /\ last.op = "none"
        /\ last' = Outcome("stringArraysHaveSameElements",
                           [kind |-> "compare", arrayA |-> arrayA, arrayB |-> arrayB],
                           0, NoError,
                           [kind |-> "boolean",
                            v |-> stringArraysHaveSameElements(arrayA, arrayB)],
                           <<>>)
        /\ UNCHANGED <<loadedSavedModelPath, nextTfSavedModelId, models, backend,
                       promises>>

SpecCompare == Init /\ [][Compare]_vars

----------------------------------------------------------------------------
(* Steps and states the claims speak about *)

\* this step is a call of loadSavedModel that returned a handle
LoadSucceeded == last'.op = "loadSavedModel" /\ last'.error = NoError

\* the registry entries, before the step, that hold the path and a permutation
\* of the tags of the load this step makes
MatchingEntries ==
    {id \in DOMAIN loadedSavedModelPath :
        /\ loadedSavedModelPath[id].path = last'.args.path
        /\ IsPermutation(loadedSavedModelPath[id].tags, last'.args.tags)}

\* this step is a call of dispose() on a handle
DisposeCalled == last'.op = "dispose"

----------------------------------------------------------------------------
(* C1: after any sequence of loads and disposes, two registry entries with the
   same path and tags that are permutations of each other hold the same native
   session, and that session is live; a load whose path and tags (up to order)
   are those of a surviving entry returns a handle on that entry's session and
   makes no call of backend.loadSavedModelMetaGraph. *)

C1_EntriesShareSession ==
    \A a \in DOMAIN loadedSavedModelPath : \A b \in DOMAIN loadedSavedModelPath :
        ( /\ loadedSavedModelPath[a].path = loadedSavedModelPath[b].path
          /\ IsPermutation(loadedSavedModelPath[a].tags, loadedSavedModelPath[b].tags) )
        => /\ loadedSavedModelPath[a].sessionId = loadedSavedModelPath[b].sessionId
           /\ loadedSavedModelPath[a].sessionId \in backend.sessions

C1_LoadReuses ==
    LoadSucceeded =>
        \A e \in MatchingEntries :
            /\ last'.target \in DOMAIN models'
            /\ models'[last'.target].sessionId = loadedSavedModelPath[e].sessionId
            /\ last'.calls = <<>>
            /\ backend' = backend

C1_OneSessionPerPathAndTags == [](C1_EntriesShareSession) /\ [][C1_LoadReuses]_vars

\* a second load with the tags in another order took the session of the first
C1_Witness ==
    /\ last.op = "loadSavedModel" /\ last.error = NoError
    /\ last.args.tags = <<STR_s, STR_e>>
    /\ last.calls = <<>>
    /\ \E e \in DOMAIN loadedSavedModelPath :
        /\ e # last.target
        /\ loadedSavedModelPath[e].tags = <<STR_e, STR_s>>
        /\ loadedSavedModelPath[e].sessionId = models[last.target].sessionId
    /\ Cardinality(backend.sessions) = 1

----------------------------------------------------------------------------
(* C2, as claimed: a load that finds a registry entry with its path and tags
   leaves the number of registry entries as it was. *)

C2_NoEntryAdded ==
    [][(LoadSucceeded /\ MatchingEntries # {}) =>
          Cardinality(DOMAIN loadedSavedModelPath') = Cardinality(DOMAIN loadedSavedModelPath)
      ]_vars

(* C2, amended: a load that finds a registry entry with its path and tags
   creates no native session, and adds exactly one entry, under the id of the
   new handle, that holds the session of the entry found; the entries that were
   there stay as they are. *)

C2_ReuseAddsOneEntry ==
    [][(LoadSucceeded /\ MatchingEntries # {}) =>
          /\ DOMAIN loadedSavedModelPath' = DOMAIN loadedSavedModelPath \cup {last'.target}
          /\ last'.target \notin DOMAIN loadedSavedModelPath
          /\ \A e \in DOMAIN loadedSavedModelPath :
                loadedSavedModelPath'[e] = loadedSavedModelPath[e]
          /\ \A e \in MatchingEntries :
                loadedSavedModelPath'[last'.target].sessionId
                    = loadedSavedModelPath[e].sessionId
          /\ backend'.sessions = backend.sessions
      ]_vars

\* two handles, two entries, one session
C2_Witness ==
    /\ last.op = "loadSavedModel" /\ last.error = NoError /\ last.calls = <<>>
    /\ Cardinality(DOMAIN loadedSavedModelPath) = 2
    /\ Cardinality(backend.sessions) = 1

----------------------------------------------------------------------------
(* C3: the ids of the handles are 0, 1, 2, ... in the order of the successful
   loads; a load takes an id no handle ever had, whether or not earlier handles
   were disposed, and the counter never goes down. *)

C3_IdsAreDense ==
    /\ DOMAIN models = 0..(nextTfSavedModelId - 1)
    /\ \A k \in DOMAIN models : models[k].jsid = k
    /\ DOMAIN loadedSavedModelPath \subseteq DOMAIN models

C3_LoadTakesFreshId ==
    /\ nextTfSavedModelId' >= nextTfSavedModelId
    /\ LoadSucceeded =>
        /\ last'.target = nextTfSavedModelId
        /\ last'.target \notin DOMAIN models
        /\ \A k \in DOMAIN models : k < last'.target
        /\ nextTfSavedModelId' = nextTfSavedModelId + 1
        /\ models'[last'.target].jsid = last'.target

C3_IdsNeverReused == [](C3_IdsAreDense) /\ [][C3_LoadTakesFreshId]_vars

\* a load made after handle 0 was disposed got id 1
C3_Witness ==
    /\ last.op = "loadSavedModel" /\ last.error = NoError
    /\ last.target = 1
    /\ models[0].disposed
    /\ 0 \notin DOMAIN loadedSavedModelPath

----------------------------------------------------------------------------
(* C4: dispose() on a live handle removes the handle's entry and calls
   backend.deleteSavedModel exactly when no other entry holds the handle's
   session; otherwise the backend is left as it is.  A handle that is not
   disposed always holds a live session, so predict on the handle that is left
   runs on a live session. *)

\* the entries other than the handle's own that hold its session, before the step
OtherHolders ==
    {id \in DOMAIN loadedSavedModelPath \ {last'.target} :
        loadedSavedModelPath[id].sessionId = models[last'.target].sessionId}

C4_DisposeStep ==
    (DisposeCalled /\ ~models[last'.target].disposed) =>
        /\ last'.target \notin DOMAIN loadedSavedModelPath'
        /\ IF OtherHolders = {}
           THEN /\ last'.calls = <<[fn |-> "deleteSavedModel",
                                    sessionId |-> models[last'.target].sessionId]>>
                /\ backend'.sessions = backend.sessions \ {models[last'.target].sessionId}
           ELSE /\ last'.calls = <<>>
                /\ backend' = backend

C4_LiveHandlesHaveLiveSessions ==
    /\ \A k \in DOMAIN models : ~models[k].disposed => models[k].sessionId \in backend.sessions
    /\ (last.op = "predict" /\ last.calls # <<>>) => last.calls[1].live

C4_ReleaseIffLastHolder == [](C4_LiveHandlesHaveLiveSessions) /\ [][C4_DisposeStep]_vars

\* of two handles on one session one is disposed, and predict on the other ran
C4_Witness ==
    /\ last.op = "predict" /\ last.error = NoError
    /\ last.calls # <<>> /\ last.calls[1].live
    /\ \E k \in DOMAIN models :
        /\ k # last.target
        /\ models[k].disposed
        /\ models[k].sessionId = models[last.target].sessionId

----------------------------------------------------------------------------
(* C5: dispose() on a handle that is already disposed fails with
   AlreadyDisposed, makes no backend call, and leaves the registry, the id
   counter, the backend's sessions and the handles as they were. *)

C5_SecondDisposeStep ==
    (DisposeCalled /\ models[last'.target].disposed) =>
        /\ last'.error = "AlreadyDisposed"
        /\ last'.calls = <<>>
        /\ UNCHANGED <<loadedSavedModelPath, nextTfSavedModelId, backend, models>>

C5_SecondDisposeFails == [][C5_SecondDisposeStep]_vars

\* a second dispose was made while another handle still held the session
C5_Witness ==
    /\ last.op = "dispose" /\ last.error = "AlreadyDisposed"
    /\ models[last.target].disposed
    /\ models[last.target].sessionId \in backend.sessions

----------------------------------------------------------------------------
(* C6: predict on a disposed handle fails with UseAfterDispose, whatever the
   shape of its input (one tensor, a list, a named map), and makes no call of
   backend.runSavedModel; a disposed handle stays disposed, so no later predict
   on it succeeds. *)

C6_PredictOnDisposedFails ==
    (last.op = "predict" /\ models[last.target].disposed) =>
        /\ last.args.kind \in {"tensor", "list", "map"}
        /\ last.error = "UseAfterDispose"
        /\ last.calls = <<>>
        /\ last.value = NoValue

C6_DisposedForGood ==
    \A k \in DOMAIN models : models[k].disposed => (k \in DOMAIN models' /\ models'[k].disposed)

C6_NoPredictAfterDispose == [](C6_PredictOnDisposedFails) /\ [][C6_DisposedForGood]_vars

\* a named map with exactly the declared names, refused because of the dispose
C6_Witness ==
    /\ last.op = "predict" /\ last.error = "UseAfterDispose"
    /\ last.args.kind = "map"
    /\ Keys(last.args.v) = Keys(models[last.target].signature.inputs)
    /\ models[last.target].disposed

----------------------------------------------------------------------------
(* C7: a predict with a named map whose set of keys is not the set of the
   signature's input names fails with InputMismatch and makes no call of
   backend.runSavedModel. *)

C7_KeyMismatchRejected ==
    ( /\ last.op = "predict" /\ last.args.kind = "map"
      /\ ~models[last.target].disposed
      /\ Elements(Keys(last.args.v)) # Elements(Keys(models[last.target].signature.inputs)) )
    => (last.error = "InputMismatch" /\ last.calls = <<>>)

----------------------------------------------------------------------------
(* C8: a predict with one tensor on a live handle returns the tensor itself
   when the backend returns exactly one, and the list the backend returned for
   every other length, zero included. *)

C8_SingleUnwrappedElseList ==
    (last.op = "predict" /\ last.args.kind = "tensor" /\ last.calls # <<>>) =>
        LET result == last.calls[1].result
        IN  IF Len(result) = 1
            THEN last.value.kind = "tensor" /\ last.value.v = result[1]
            ELSE last.value.kind = "list" /\ last.value.v = result

----------------------------------------------------------------------------
(* C9: a predict with a named map that got past the check of its names fails
   with OutputCountMismatch when the backend returns a number of tensors other
   than the number of the signature's output names; otherwise it returns a map
   whose keys are the signature's output names, in order, the i-th key holding
   the i-th tensor returned. *)

C9_OutputsByName ==
    (last.op = "predict" /\ last.args.kind = "map" /\ last.calls # <<>>) =>
        LET result == last.calls[1].result
            declared == Keys(models[last.target].signature.outputs)
        IN  IF Len(result) # Len(declared)
            THEN last.error = "OutputCountMismatch" /\ last.value = NoValue
            ELSE /\ last.error = NoError
                 /\ last.value.kind = "map"
                 /\ Keys(last.value.v) = declared
                 /\ \A i \in 1..Len(declared) : last.value.v[i].value = result[i]

\* two declared outputs, two tensors returned, each under its name
C9_Witness ==
    /\ last.op = "predict" /\ last.args.kind = "map" /\ last.error = NoError
    /\ last.value.kind = "map"
    /\ Keys(last.value.v) = <<STR_y, STR_z>>
    /\ last.value.v[1].value = OutputTensorAt(1)
    /\ last.value.v[2].value = OutputTensorAt(2)

----------------------------------------------------------------------------
(* C10: the signature lookup returns the entry of the first MetaGraph of the
   list whose set of tags is the set of the requested tags; it fails with
   TagsNotFound when no MetaGraph has that set of tags, and with
   SignatureNotFound when the first such MetaGraph lacks the signature, whatever
   later MetaGraphs hold. *)

\* the graphs of the list whose tags are, as a set, the requested tags
GraphsWithTagSet(savedModelInfo, tags) ==
    {i \in 1..Len(savedModelInfo) : Elements(savedModelInfo[i].tags) = Elements(tags)}

C10_FirstTagSetMatch ==
    (last.op = "getSignatureDefEntryFromMetaGraphinfo") =>
        LET info == last.args.savedModelInfo
            matching == GraphsWithTagSet(info, last.args.tags)
        IN  IF matching = {}
            THEN last.error = "TagsNotFound"
            ELSE LET first == CHOOSE i \in matching : \A j \in matching : i <= j
                 IN  IF ~HasKey(info[first].signatureDefs, last.args.signature)
                     THEN last.error = "SignatureNotFound"
                     ELSE /\ last.error = NoError
                          /\ last.value.v = Get(info[first].signatureDefs, last.args.signature)

----------------------------------------------------------------------------
(* C11: a load that fails its validation (no descriptor file, no MetaGraph with
   the tags, no such signature, a dtype the mapper rejects) commits nothing:
   the registry keeps its entries, nextTfSavedModelId keeps its value, the
   backend keeps its sessions and is not called, and no handle is made. *)

LoadErrors == {"NotFound", "TagsNotFound", "SignatureNotFound", UnsupportedDtype}

C11_FailedLoadStep ==
    (last'.op = "loadSavedModel" /\ last'.error # NoError) =>
        /\ last'.error \in LoadErrors
        /\ last'.calls = <<>>
        /\ last'.value = NoValue
        /\ loadedSavedModelPath' = loadedSavedModelPath
        /\ nextTfSavedModelId' = nextTfSavedModelId
        /\ backend' = backend
        /\ models' = models

C11_FailedLoadCommitsNothing == [][C11_FailedLoadStep]_vars

\* a load of a path already in the registry, failed for its signature name
C11_Witness ==
    /\ last.op = "loadSavedModel" /\ last.error = "SignatureNotFound"
    /\ \E e \in DOMAIN loadedSavedModelPath :
          loadedSavedModelPath[e].path = last.args.path
    /\ nextTfSavedModelId = 1
    /\ Cardinality(backend.sessions) = 1

----------------------------------------------------------------------------
(* C12: whenever getMetaGraphsFromSavedModel returns, it returns one MetaGraph
   per metagraph of the descriptor, in the descriptor's order and with the
   descriptor's tags; no MetaGraph returned has the key '__saved_model_init_op'
   in its signatureDefs, and every other signature key of the descriptor's
   metagraph is there, in the descriptor's order. *)

\* the signature keys of one metagraph of the descriptor, the reserved one left out
KeysButInitOp(signatureDefMap) ==
    LET keys == [j \in 1..Len(signatureDefMap) |-> signatureDefMap[j].key]
    IN  SelectSeq(keys, LAMBDA k : k # SAVED_MODEL_INIT_OP_KEY)

C12_OneMetaGraphPerGraph ==
    (last.op = "getMetaGraphsFromSavedModel" /\ last.error = NoError) =>
        LET metaGraphList == last.args.metaGraphList
            result == last.value.v
        IN  /\ Len(result) = Len(metaGraphList)
            /\ \A i \in 1..Len(metaGraphList) :
                /\ result[i].tags = metaGraphList[i].tags
                /\ ~HasKey(result[i].signatureDefs, SAVED_MODEL_INIT_OP_KEY)
                /\ Keys(result[i].signatureDefs)
                       = KeysButInitOp(metaGraphList[i].signatureDefMap)

\* two graphs, the reserved key dropped between two keys that are kept
C12_Witness ==
    /\ last.op = "getMetaGraphsFromSavedModel" /\ last.error = NoError
    /\ Len(last.args.metaGraphList) = 2
    /\ last.args.metaGraphList[1].signatureDefMap = <<InitOpTyped, ServingSignature>>
    /\ last.args.metaGraphList[2].signatureDefMap
          = <<ServingSignature, InitOpSignature, OtherSignature>>
    /\ last.args.metaGraphList[1].tags # last.args.metaGraphList[2].tags
    /\ Keys(last.value.v[1].signatureDefs) = <<"serving_default">>
    /\ Keys(last.value.v[2].signatureDefs) = <<"serving_default", "other">>

----------------------------------------------------------------------------
(* C13: a read of inputs or of outputs reports, for each tensor of the
   signature in key order, the name the signature holds for it without its
   trailing ':0' when it ends in ':0', and that very name when it ends in ':1'
   or has no output index; the other fields of the tensor info are reported as
   the signature holds them. *)

\* the entries the accessor of this step reads, as they are before the step
EntriesRead ==
    IF last'.op = "inputs" THEN models[last'.target].signature.inputs
    ELSE models[last'.target].signature.outputs

EndsInColonZero(name) ==
    Len(name) >= 2 /\ SubSeq(name, Len(name) - 1, Len(name)) = <<Colon, DigitZero>>

C13_AccessorStep ==
    (last'.op \in {"inputs", "outputs"}) =>
        /\ last'.error = NoError
        /\ Len(last'.value.v) = Len(EntriesRead)
        /\ \A i \in 1..Len(EntriesRead) :
            LET held == EntriesRead[i].value
                reported == last'.value.v[i]
            IN  /\ IF EndsInColonZero(held.name)
                   THEN reported.name \o <<Colon, DigitZero>> = held.name
                   ELSE reported.name = held.name
                /\ reported.dtype = held.dtype
                /\ reported.shape = held.shape

C13_TrailingColonZeroRemoved == [][C13_AccessorStep]_vars

\* the first read of outputs named 'y:0' and 'z:1' reports 'y' and 'z:1'
C13_Witness ==
    /\ last.op = "outputs"
    /\ Len(last.value.v) = 2
    /\ last.value.v[1].name = STR_y
    /\ last.value.v[2].name = STR_z1
    /\ ~models[last.target].cached

----------------------------------------------------------------------------
(* C14, as claimed: when two calls of loadSavedModel for one path and one set
   of tags are in flight together, both miss the reuse scan and each creates a
   native session, which leads to a state where two registry entries with that
   path and those tags hold two distinct sessions. *)

SamePair(a, b) == a.path = b.path /\ IsPermutation(a.tags, b.tags)

\* two pending calls for one pair that pass the validation of lines 301-302
TwoLoadsInFlightForOnePair ==
    \E i \in DOMAIN promises : \E j \in DOMAIN promises :
        /\ i # j
        /\ ~promises[i].settled /\ ~promises[j].settled
        /\ promises[i].args.path = "p1" /\ promises[j].args.path = "p1"
        /\ SamePair(promises[i].args, promises[j].args)

TwoSessionsForOnePair ==
    \E a \in DOMAIN loadedSavedModelPath : \E b \in DOMAIN loadedSavedModelPath :
        /\ SamePair(loadedSavedModelPath[a], loadedSavedModelPath[b])
        /\ loadedSavedModelPath[a].sessionId # loadedSavedModelPath[b].sessionId

C14_OverlapMakesTwoSessions == TwoLoadsInFlightForOnePair ~> TwoSessionsForOnePair

(* C14, amended: calls of loadSavedModel that are in flight together never
   both miss the reuse scan.  The scan, the creation of the session and the
   write of the registry entry (lines 304-317) run without suspension after
   the one await (line 301), so the call that resumes second finds the entry
   of the first and takes its session: no state has two registry entries with
   one path and one set of tags and two distinct sessions, and a resumed call
   that finds an entry of its pair makes no backend call. *)

\* this step is the continuation of a pending call
PromiseSettles ==
    \E i \in DOMAIN promises : ~promises[i].settled /\ promises'[i].settled

C14_ResumeReuses ==
    (PromiseSettles /\ LoadSucceeded /\ MatchingEntries # {}) =>
        /\ last'.calls = <<>>
        /\ backend'.sessions = backend.sessions

C14_OverlapSharesSession == [](~TwoSessionsForOnePair) /\ [][C14_ResumeReuses]_vars

\* two calls for one pair, the second made before the first was resumed, both
\* settled: two entries, one session
C14_Witness ==
    \E i \in DOMAIN promises : \E j \in DOMAIN promises :
        /\ promises[i].settled /\ promises[j].settled
        /\ promises[i].handle # NoHandle /\ promises[j].handle # NoHandle
        /\ promises[i].handle < promises[j].handle
        /\ promises[j].calledAt <= promises[i].handle
        /\ promises[i].args.tags # promises[j].args.tags
        /\ SamePair(promises[i].args, promises[j].args)
        /\ promises[i].handle \in DOMAIN loadedSavedModelPath
        /\ promises[j].handle \in DOMAIN loadedSavedModelPath
        /\ loadedSavedModelPath[promises[i].handle].sessionId
              = loadedSavedModelPath[promises[j].handle].sessionId
        /\ Cardinality(backend.sessions) = 1

----------------------------------------------------------------------------
(* C15: when a predict with a named map gets past the check of its names and
   calls the backend, the call has one input tensor and one input node info
   per declared input of the signature, in the declared order: the i-th
   tensor is the one the map holds under the i-th declared name, whatever the
   order of the map's keys, and the i-th node info is the tensor info the
   signature holds under that name. *)

----------------------------------------------------------------------------
(* C16: stringArraysHaveSameElements returns true exactly when its two lists
   are equal as sets: true for the permutations of a list, false when a tag is
   in one list and not in the other, tags with a comma and lists that repeat a
   tag included. *)

C16_TrueIffEqualAsSets ==
    (last.op = "stringArraysHaveSameElements") =>
        (last.value.v <=> (Elements(last.args.arrayA) = Elements(last.args.arrayB)))

----------------------------------------------------------------------------
(* C17: when loadSavedModel creates a native session, the tags string it gives
   to backend.loadSavedModelMetaGraph is fixed by the tags of the call, not by
   their order: it is the comma join of the tags of the call put in ascending
   order, so two calls whose tag arrays are permutations of each other give
   the same string. *)

\* the arrangements of tags in ascending order of their code units
AscendingArrangements(tags) ==
    {p \in [1..Len(tags) -> Elements(tags)] :
        /\ IsPermutation(p, tags)
        /\ \A i \in 1..Len(p) : \A j \in 1..Len(p) : i < j => ~StrLess(p[j], p[i])}

C17_TagsStringOfTheTagSet ==
    (last.op = "loadSavedModel" /\ last.calls # <<>>) =>
        /\ last.calls[1].fn = "loadSavedModelMetaGraph"
        /\ last.calls[1].path = last.args.path
        /\ \E p \in AscendingArrangements(last.args.tags) :
                last.calls[1].tagsString = join(p)

\* the tags given as 's', 'e' reach the backend as "e,s", as do 'e', 's'
C17_Witness ==
    /\ last.op = "loadSavedModel" /\ last.calls # <<>>
    /\ last.args.tags = <<STR_s, STR_e>>
    /\ last.calls[1].tagsString = STR_e_s
    /\ join(<<STR_e, STR_s>>) = STR_e_s

----------------------------------------------------------------------------
(* C18: a read of inputs or of outputs leaves the tensor names the signature
   holds as they are; a read that follows a read of the same accessor of the
   same handle returns the same names; and the input node infos and output node
   names a predict on the handle passes to the backend are after the read what
   they were before it. *)

\* the names of the input node infos a predict on the handle passes
InputNodeNamesPassed(model) ==
    [i \in 1..Len(model.signature.inputs) |-> model.signature.inputs[i].value.name]

C18_SignatureKept ==
    models'[last'.target].signature = models[last'.target].signature

C18_RepeatedReadSame ==
    (last.op = last'.op /\ last.target = last'.target) => last'.value = last.value

C18_PredictNamesKept ==
    /\ InputNodeNamesPassed(models'[last'.target]) = InputNodeNamesPassed(models[last'.target])
    /\ Values(outputNodeNames(models'[last'.target]))
          = Values(outputNodeNames(models[last'.target]))

C18_AccessorStep ==
    (last'.op \in {"inputs", "outputs"}) =>
        (C18_SignatureKept /\ C18_RepeatedReadSame /\ C18_PredictNamesKept)

C18_ReadsModifyNothing == [][C18_AccessorStep]_vars

----------------------------------------------------------------------------
(* C19: mapTFDtypeToJSDtype gives float32 for DT_FLOAT, int32 for DT_INT64,
   DT_INT32 and DT_UINT8, bool for DT_BOOL, complex64 for DT_COMPLEX64, string
   for DT_STRING, and fails with UnsupportedDtype for every other key of the
   enum; so the inspection of a descriptor succeeds exactly when the tensors of
   its signatures have these seven dtypes, DT_FLOAT among them, and every
   tensor info it returns has the dtype of this table. *)

DtypeAsDocumented(tfDtype) ==
    CASE tfDtype = "DT_FLOAT" -> "float32"
      [] tfDtype \in {"DT_INT64", "DT_INT32", "DT_UINT8"} -> "int32"
      [] tfDtype = "DT_BOOL" -> "bool"
      [] tfDtype = "DT_COMPLEX64" -> "complex64"
      [] tfDtype = "DT_STRING" -> "string"
      [] OTHER -> UnsupportedDtype

\* the dtype key of a tensor of the descriptor
DtypeKeyOf(tensor) == getEnumKeyFromValue(DataType, tensor.dtype)

\* every tensor of every signature that is not skipped has a documented dtype
AllDtypesDocumented(metaGraphList) ==
    \A g \in 1..Len(metaGraphList) :
        \A k \in 1..Len(metaGraphList[g].signatureDefMap) :
            LET signatureDef == metaGraphList[g].signatureDefMap[k]
                tensors == signatureDef.inputs \o signatureDef.outputs
            IN  signatureDef.key # SAVED_MODEL_INIT_OP_KEY =>
                    \A t \in 1..Len(tensors) :
                        DtypeAsDocumented(DtypeKeyOf(tensors[t])) # UnsupportedDtype

\* every tensor info returned has the documented dtype of its key
ReturnedDtypesDocumented(result) ==
    \A g \in 1..Len(result) : \A k \in 1..Len(result[g].signatureDefs) :
        LET entry == result[g].signatureDefs[k].value
            infos == Values(entry.inputs) \o Values(entry.outputs)
        IN  \A t \in 1..Len(infos) : infos[t].dtype = DtypeAsDocumented(infos[t].tfDtype)

C19_DtypeMapperAsDocumented ==
    (last.op = "getMetaGraphsFromSavedModel") =>
        IF AllDtypesDocumented(last.args.metaGraphList)
        THEN last.error = NoError /\ ReturnedDtypesDocumented(last.value.v)
        ELSE last.error = UnsupportedDtype

----------------------------------------------------------------------------
(* C20: after any sequence of loads and disposes made one at a time, the
   sessions live in the backend are exactly the sessions the registry entries
   hold: every session the backend ever made is live if and only if some entry
   holds it.  No entry and no handle that is not disposed holds a released
   session, and the registry has one entry per handle that is not disposed,
   under the id of the handle and with the session of the handle. *)

\* the sessions the backend has made so far
SessionsMade == 0..(backend.nextSessionId - 1)

SessionsHeld == {loadedSavedModelPath[id].sessionId : id \in DOMAIN loadedSavedModelPath}

C20_LiveIffReferenced ==
    /\ backend.sessions \subseteq SessionsMade
    /\ \A sessionId \in SessionsMade :
          sessionId \in backend.sessions <=> sessionId \in SessionsHeld
    /\ \A k \in DOMAIN models :
          ~models[k].disposed => models[k].sessionId \in backend.sessions
    /\ DOMAIN loadedSavedModelPath = {k \in DOMAIN models : ~models[k].disposed}
    /\ \A id \in DOMAIN loadedSavedModelPath :
          loadedSavedModelPath[id].sessionId = models[id].sessionId

\* two sessions were made, one handle was disposed and its session released,
\* the other handle and its entry hold the session that is still live
C20_Witness ==
    /\ last.op = "dispose" /\ last.error = NoError /\ last.calls # <<>>
    /\ backend.nextSessionId = 2
    /\ Cardinality(backend.sessions) = 1
    /\ Cardinality(DOMAIN loadedSavedModelPath) = 1
    /\ SessionsHeld = backend.sessions

====
